---- MODULE Spec2Model ----
(***************************************************************************)
(* Model of src/src/message/Message.tsx: the message (toast) manager.      *)
(*                                                                         *)
(* State: the module-level registry MessageList and counter keyIndex, the  *)
(* wrapper containers found under each host, and one record per message    *)
(* created by renderElement (its handle, its promise, the Message          *)
(* component's timerRef and pending timeouts).                             *)
(*                                                                         *)
(* Render host (React, legacy ReactDOM.render):                            *)
(*  - a top-level ReactDOM.render commits synchronously, so the ref         *)
(*    callback runs inside the call, before the statements that follow it; *)
(*  - the mount effect of useEffect is modelled as part of the commit;      *)
(*  - unmountComponentAtNode runs the ref callback with null and the        *)
(*    effect cleanup synchronously, and does nothing on a div that holds   *)
(*    no root;                                                              *)
(*  - a ReactDOM.render issued from inside a commit (from onClosed) is      *)
(*    deferred to the end of that commit.                                   *)
(* The callbacks onDurationEnd and onClosed are the caller's: whether       *)
(* onDurationEnd calls the close it is given, and whether onClosed creates *)
(* a new message, is chosen each time they are invoked.                    *)
(* Time is counted in milliseconds and advances in steps of TickMs.        *)
(***************************************************************************)
EXTENDS Integers, Sequences, FiniteSets, TLC

\* ---------------------------------------------------------------- bounds
MaxMsgs == 2        \* messages created in one behaviour
MaxArm == 2         \* timeouts one Message component sets in one behaviour

\* ------------------------------------------------------- program constants
globalConfig == [zIndex |-> 6000, duration |-> 3000, top |-> 32]
Top == "top"
ThemeList == {"info", "success", "warning", "error", "question", "loading"}

\* JavaScript undefined: for the optional fields that hold a string, and for
\* those that hold a number
Undefined == "undefined"
UndefinedNumber == -1
TickMs == globalConfig.duration \div 2

\* ------------------------------------------------------------ input sets
Hosts == {"body", "h1"}
Placements == {"top", "bottom"}
\* attach: absent, a DOM node of the page, or a React element
Attaches == {Undefined, "h1", "reactElement"}
Durations == {UndefinedNumber, 0, globalConfig.duration}
ZIndexes == {UndefinedNumber, 7000}

\* what a caller passes as first argument: plain content, or a config object.
\* hasDuration: whether the object has a duration key (its value may be
\* undefined). The callbacks onDurationEnd and onClosed are opaque functions:
\* what they do is chosen when they are invoked.
PlainContent == [kind |-> "plain"]
ConfigContents ==
  [kind : {"config"}, hasDuration : BOOLEAN, duration : Durations,
   placement : Placements \cup {Undefined}, attach : Attaches, zIndex : ZIndexes]
\* configs that vary the duration and leave the container options out
LifeContents ==
  {PlainContent} \cup
  {c \in ConfigContents : /\ c.hasDuration \/ c.duration = UndefinedNumber
                          /\ c.placement = Undefined
                          /\ c.attach = Undefined
                          /\ c.zIndex = UndefinedNumber}
\* configs that vary the container options and leave the duration out
ContainerContents ==
  {PlainContent} \cup
  {c \in ConfigContents : ~c.hasDuration /\ c.duration = UndefinedNumber}

VARIABLES
  inst,         \* Seq of message records, in creation order
  MessageList,  \* the registry: Seq of handles (indices into inst)
  keyIndex,     \* the key counter
  containers,   \* host -> Seq of wrapper containers under it
  used,         \* history: the (host, placement) pairs createContainer was run for
  pc,           \* "idle", or "attach" inside renderElement after ReactDOM.render
  threw,        \* whether the last factory call threw
  swept         \* history: when the last step was closeAll(), the number of
                \* messages created before it; UndefinedNumber otherwise

vars == <<inst, MessageList, keyIndex, containers, used, pc, threw, swept>>

\* The state a task starts from. Four fields live only within the task: thens
\* is the microtask queue, empty between tasks; closesFuture is what the
\* onClosed callbacks of this task do with the message they create, whether
\* they pass its future to Message.close; asked is the set of messages whose
\* future the task has passed to Message.close; calls is the sequence of
\* handles closeAll() has called close() on.
World ==
  [inst |-> inst, MessageList |-> MessageList, keyIndex |-> keyIndex,
   containers |-> containers, used |-> used,
   asked |-> {}, calls |-> <<>>, thens |-> <<>>, closesFuture |-> FALSE]

Min(a, b) == IF a < b THEN a ELSE b
Max(a, b) == IF a > b THEN a ELSE b
Range(s) == {s[k] : k \in 1..Len(s)}
Remove(s, x) == SelectSeq(s, LAMBDA y : y # x)
Count(s, x) == Cardinality({k \in 1..Len(s) : s[k] = x})

\* ------------------------------------------------------------ factory
isConfig(content) == content.kind = "config"

\* Message[theme]: the config handed to renderElement
MergeConfig(content, duration) ==
  LET dflt == IF duration = UndefinedNumber THEN globalConfig.duration ELSE duration
      base == IF isConfig(content)
              THEN [duration |-> IF content.hasDuration THEN content.duration ELSE dflt,
                    placement |-> content.placement, attach |-> content.attach,
                    zIndex |-> content.zIndex]
              ELSE [duration |-> dflt, placement |-> Undefined, attach |-> Undefined,
                    zIndex |-> UndefinedNumber]
  IN [base EXCEPT !.zIndex = IF @ = UndefinedNumber THEN globalConfig.zIndex ELSE @]

\* ---------------------------------------------------------- createContainer
isValidElement(attach) == attach = "reactElement"
IncludesTop(placement) == placement \in {"top", "top-left", "top-right"}
PlacementOf(config) == IF config.placement = Undefined THEN Top ELSE config.placement
\* lines 33-36: the host createContainer searches; a DOM node given as attach
\* is no React element, so the search stays on document.body
mountedDomOf(config) ==
  IF isValidElement(config.attach) THEN config.attach ELSE "body"

\* a React element has no querySelectorAll: line 38 throws
createContainerThrows(config) == isValidElement(config.attach)

\* mutant: a container that is found takes the zIndex and the offsets of the call
createContainer_restyles(cs, config) ==
  LET mountedDom == mountedDomOf(config)
      placement == PlacementOf(config)
      div == [zIndex |-> config.zIndex, placement |-> placement,
              top |-> IF IncludesTop(placement) THEN globalConfig.top ELSE UndefinedNumber,
              children |-> <<>>]
  IN IF Len(cs[mountedDom]) < 1
     THEN [cs EXCEPT ![mountedDom] = Append(@, div)]
     ELSE [cs EXCEPT ![mountedDom][1] = [div EXCEPT !.children = cs[mountedDom][1].children]]

\* the containers after createContainer(config), for a call that does not throw
createContainer(cs, config) ==
  LET mountedDom == mountedDomOf(config)
      placement == PlacementOf(config)
      div == [zIndex |-> config.zIndex, placement |-> placement,
              top |-> IF IncludesTop(placement) THEN globalConfig.top ELSE UndefinedNumber,
              children |-> <<>>]
  IN IF Len(cs[mountedDom]) < 1
     THEN [cs EXCEPT ![mountedDom] = Append(@, div)]
     ELSE cs

\* ------------------------------------------------- the Message component
\* timers: the pending timeouts the component set, each with the id setTimeout
\* returned and the time left; waited: how long the timeout timerRef names has
\* been pending, counted up to the duration
clearTimeout(m, id) == [m EXCEPT !.timers = {t \in @ : t.id # id}]

\* mutant: pointer-leave resumes the time that was left instead of restarting
startDuration_resume(m) ==
  LET c == clearTimeout(m, m.timerRef)
      id == c.timerSeq + 1
      delay == IF c.duration = UndefinedNumber THEN 0 ELSE Max(0, c.duration - m.waited)
  IN [c EXCEPT !.timers = @ \cup {[id |-> id, remaining |-> delay]},
               !.timerRef = id, !.timerSeq = id, !.waited = 0]

\* mutant: the previous timeout is not cleared before the next is set
startDuration_noClearTimeout(m) ==
  LET id == m.timerSeq + 1
      delay == IF m.duration = UndefinedNumber THEN 0 ELSE m.duration
  IN [m EXCEPT !.timers = @ \cup {[id |-> id, remaining |-> delay]},
               !.timerRef = id, !.timerSeq = id, !.waited = 0]

startDuration(m) ==
  LET c == clearTimeout(m, m.timerRef)
      id == c.timerSeq + 1
      delay == IF c.duration = UndefinedNumber THEN 0 ELSE c.duration
  IN [c EXCEPT !.timers = @ \cup {[id |-> id, remaining |-> delay]},
               !.timerRef = id, !.timerSeq = id, !.waited = 0]

\* useEffect body
effectMount(m) == IF m.duration # UndefinedNumber THEN startDuration(m) ELSE m

\* mutant: the cleanup forgets onClosed
effectCleanup_noOnClosed(m) == clearTimeout(m, m.timerRef)

\* mutant: the cleanup leaves the pending timeout alone
effectCleanup_noClearTimeout(m) == [m EXCEPT !.log = Append(@, "closed")]

\* useEffect cleanup: clearTimeout, then onClosed()
effectCleanup(m) == [clearTimeout(m, m.timerRef) EXCEPT !.log = Append(@, "closed")]

\* res(message): a promise settles once, with the handle (named by its key)
res(m) == [m EXCEPT !.promise = IF @ = 0 THEN m.key ELSE @,
                    !.resCalls = @ + 1]

\* mutant: the ref callback is not wired, the promise is never settled
commitMount_noRef(m) == effectMount([m EXCEPT !.mounted = TRUE])

\* the commit of ReactDOM.render: mount, ref callback, effect
commitMount(m) == effectMount(res([m EXCEPT !.mounted = TRUE]))

\* the commit of the unmount: ref callback with null, effect cleanup; the
\* component and its timerRef are gone afterwards
commitUnmount(m) ==
  [res(effectCleanup(m)) EXCEPT !.mounted = FALSE, !.hover = FALSE,
                                !.timerRef = 0, !.timerSeq = 0, !.waited = 0]

\* ------------------------------------------------------------ renderElement
NewMessage(key, config) ==
  [key |-> key, duration |-> config.duration, attach |-> config.attach,
   mounted |-> FALSE, promise |-> 0, resCalls |-> 0,
   timers |-> {}, timerRef |-> 0, timerSeq |-> 0, waited |-> 0,
   hover |-> FALSE, log |-> <<>>]

\* mutant: the handle takes its key before the counter is incremented
renderElementRender_keyBeforeIncrement(w, config) ==
  LET cs == createContainer(w.containers, config)
      key == w.keyIndex
  IN [w EXCEPT !.containers = cs,
               !.keyIndex = key + 1,
               !.used = @ \cup {<<mountedDomOf(config), PlacementOf(config)>>},
               !.inst = Append(@, commitMount(NewMessage(key, config)))]

\* lines 58-96 of a top-level call: container, key, handle, ReactDOM.render
renderElementRender(w, config) ==
  LET cs == createContainer(w.containers, config)
      key == w.keyIndex + 1
  IN [w EXCEPT !.containers = cs,
               !.keyIndex = key,
               !.used = @ \cup {<<mountedDomOf(config), PlacementOf(config)>>},
               !.inst = Append(@, commitMount(NewMessage(key, config)))]

\* mutant: the handle is not pushed to the registry
renderElementAttach_noPush(w, i) ==
  [w EXCEPT !.containers["body"][1].children = Append(@, i)]

\* mutant: the element is inserted before the first child
renderElementAttach_prepend(w, i) ==
  [w EXCEPT !.containers["body"][1].children = <<i>> \o @,
            !.MessageList = Append(@, i)]

\* lines 97-98: container.appendChild(div); MessageList.push(message)
renderElementAttach(w, i) ==
  [w EXCEPT !.containers["body"][1].children = Append(@, i),
            !.MessageList = Append(@, i)]

\* mutant: Message.close leaves the continuation out and closes at once
thenClose_atOnce(w, i, creates) ==
  LET m == w.inst[i]
      w1 == [w EXCEPT !.containers =
               [h \in Hosts |->
                  [k \in 1..Len(w.containers[h]) |->
                     [w.containers[h][k] EXCEPT !.children = Remove(@, i)]]]]
  IN [(IF m.mounted THEN [w1 EXCEPT !.inst[i] = commitUnmount(@)] ELSE w1)
        EXCEPT !.asked = @ \cup {i}]

\* Message.close(message): message.then(instance => instance.close()) queues
\* the continuation; creates is what the onClosed of that message will do
thenClose(w, i, creates) ==
  [w EXCEPT !.thens = Append(@, [inst |-> i, creates |-> creates]),
            !.asked = @ \cup {i}]

\* a call made by a callback that runs inside a commit: the render is deferred
\* until that commit ends, after appendChild and push and after the callback
\* has returned (so after its Message.close on the pending future)
renderElementNested(w, config) ==
  LET cs == createContainer(w.containers, config)
      key == w.keyIndex + 1
      i == Len(w.inst) + 1
      w1 == [w EXCEPT !.containers = cs,
                      !.keyIndex = key,
                      !.used = @ \cup {<<mountedDomOf(config), PlacementOf(config)>>},
                      !.inst = Append(@, NewMessage(key, config))]
      w2 == renderElementAttach(w1, i)
      w3 == IF w2.closesFuture THEN thenClose(w2, i, FALSE) ELSE w2
  IN [w3 EXCEPT !.inst[i] = commitMount(@)]

\* ------------------------------------------------------------ message.close
\* creates: whether onClosed, if it runs, calls Message.info(content)
unmountComponentAtNode(w, i, creates) ==
  IF ~w.inst[i].mounted
  THEN w
  ELSE LET w1 == [w EXCEPT !.inst[i] = commitUnmount(@)]
       IN IF creates /\ Len(w1.inst) < MaxMsgs
          THEN renderElementNested(w1, MergeConfig(PlainContent, UndefinedNumber))
          ELSE w1

divRemove(w, i) ==
  [w EXCEPT !.containers =
     [h \in Hosts |->
        [k \in 1..Len(w.containers[h]) |->
           [w.containers[h][k] EXCEPT !.children = Remove(@, i)]]]]

\* mutant: the handle's close calls onClosed itself, on every call
close_callsOnClosed(w, i, creates) ==
  LET w1 == divRemove(unmountComponentAtNode(w, i, creates), i)
  IN [w1 EXCEPT !.inst[i].log = Append(@, "closed")]

close(w, i, creates) == divRemove(unmountComponentAtNode(w, i, creates), i)

\* ------------------------------------------------------------ Message.closeAll
\* mutant: the sweep passes over the handles that are already closed
RECURSIVE closeEach_skipsClosed(_, _, _, _)
closeEach_skipsClosed(w, list, k, creators) ==
  IF k > Len(list) THEN w
  ELSE closeEach_skipsClosed(
         IF w.inst[list[k]].mounted
         THEN [close(w, list[k], list[k] \in creators) EXCEPT !.calls = Append(@, list[k])]
         ELSE w,
         list, k + 1, creators)

\* creators: the handles whose onClosed creates a message
RECURSIVE closeEach(_, _, _, _)
closeEach(w, list, k, creators) ==
  IF k > Len(list) THEN w
  ELSE closeEach([close(w, list[k], list[k] \in creators) EXCEPT !.calls = Append(@, list[k])],
                 list, k + 1, creators)

closeAll(w, creators) ==
  [closeEach(w, w.MessageList, 1, creators) EXCEPT !.MessageList = <<>>]

\* ------------------------------------------------------------ timer handler
\* mutant: the handler closes before it calls onDurationEnd
timerHandler_closeFirst(w, i, t, closes, creates) ==
  LET w1 == close([w EXCEPT !.inst[i].timers = @ \ {t}], i, creates)
  IN [w1 EXCEPT !.inst[i].log =
                   Append(@, IF closes THEN "durationEnd:close" ELSE "durationEnd")]

\* lines 155-158; closes: whether onDurationEnd calls the close it is given
timerHandler(w, i, t, closes, creates) ==
  LET w1 == [w EXCEPT !.inst[i].timers = @ \ {t},
                      !.inst[i].log =
                         Append(@, IF closes THEN "durationEnd:close" ELSE "durationEnd")]
      w2 == IF closes THEN close(w1, i, creates) ELSE w1
  IN close(w2, i, creates)

\* ------------------------------------------------------------ state machine
Attached(w, i) == \E h \in Hosts : \E k \in 1..Len(w.containers[h]) :
                     i \in Range(w.containers[h][k].children)

\* no handler is running
Ready == pc = "idle"

\* the end of a task: the queued continuations run, each closing its handle
\* once its promise is settled
RECURSIVE runMicrotasks(_)
runMicrotasks(w) ==
  IF w.thens = <<>> THEN w
  ELSE LET th == Head(w.thens)
           w1 == [w EXCEPT !.thens = Tail(@)]
       IN runMicrotasks(IF w1.inst[th.inst].promise # 0
                        THEN close(w1, th.inst, th.creates) ELSE w1)

\* the state a task leaves
Set(w) ==
  \E d \in {runMicrotasks(w)} :
     /\ inst' = d.inst
     /\ MessageList' = d.MessageList
     /\ keyIndex' = d.keyIndex
     /\ containers' = d.containers
     /\ used' = d.used

\* the callbacks of one task: what onClosed does with a message it creates
Task(closesFuture) == [World EXCEPT !.closesFuture = closesFuture]

Init ==
  /\ inst = <<>>
  /\ MessageList = <<>>
  /\ keyIndex = 1
  /\ containers = [h \in Hosts |-> <<>>]
  /\ used = {}
  /\ pc = "idle"
  /\ threw = FALSE
  /\ swept = UndefinedNumber

\* Message[theme](content, duration), up to the return of ReactDOM.render
Factory(theme, content, duration) ==
  /\ Ready
  /\ Len(inst) < MaxMsgs
  /\ LET config == MergeConfig(content, duration)
     IN IF createContainerThrows(config)
        THEN /\ threw' = TRUE
             /\ UNCHANGED <<inst, MessageList, keyIndex, containers, used, pc>>
        ELSE /\ Set(renderElementRender(World, config))
             /\ pc' = "attach"
             /\ threw' = FALSE
  /\ swept' = UndefinedNumber

\* the rest of the promise executor
FactoryAttach ==
  /\ pc = "attach"
  /\ Set(renderElementAttach(World, Len(inst)))
  /\ pc' = "idle"
  /\ swept' = UndefinedNumber
  /\ UNCHANGED threw

\* handle.close() by a caller that holds the resolved handle
Close(i) ==
  /\ Ready
  /\ inst[i].promise # 0
  /\ \E creates \in BOOLEAN, cf \in BOOLEAN :
       /\ cf => creates /\ Len(inst) < MaxMsgs
       /\ Set(close(Task(cf), i, creates))
  /\ swept' = UndefinedNumber
  /\ UNCHANGED <<pc, threw>>

\* Message.close(future) by a caller: the continuation runs when the calling
\* task ends, before any other task
MessageClose(i) ==
  /\ Ready
  /\ \E creates \in BOOLEAN, cf \in BOOLEAN :
       /\ cf => creates /\ Len(inst) < MaxMsgs
       /\ Set(thenClose(Task(cf), i, creates))
  /\ swept' = UndefinedNumber
  /\ UNCHANGED <<pc, threw>>

CloseAll ==
  /\ Ready
  /\ \E creators \in SUBSET Range(MessageList), cf \in BOOLEAN :
       /\ cf => creators # {} /\ Len(inst) < MaxMsgs
       /\ Set(closeAll(Task(cf), creators))
  /\ swept' = Len(inst)
  /\ UNCHANGED <<pc, threw>>

\* TickMs pass
TickInst(m) ==
  [m EXCEPT !.timers = {[id |-> t.id, remaining |-> Max(0, t.remaining - TickMs)] : t \in @},
            !.waited = IF \E t \in m.timers : t.id = m.timerRef
                       THEN Min(Max(0, m.duration), @ + TickMs) ELSE @]

Tick ==
  /\ Ready
  /\ inst' = [i \in 1..Len(inst) |-> TickInst(inst[i])]
  /\ inst' # inst
  /\ swept' = UndefinedNumber
  /\ UNCHANGED <<MessageList, keyIndex, containers, used, pc, threw>>

\* a timeout that is due runs its handler; futures: what the onClosed
\* callbacks may do with the future of a message they create
TimerFires(i, futures) ==
  /\ Ready
  /\ i \in 1..Len(inst)
  /\ \E t \in inst[i].timers, closes \in BOOLEAN, creates \in BOOLEAN, cf \in futures :
       /\ t.remaining = 0
       /\ cf => creates /\ Len(inst) < MaxMsgs
       /\ Set(timerHandler(Task(cf), i, t, closes, creates))
  /\ swept' = UndefinedNumber
  /\ UNCHANGED <<pc, threw>>

TimerFire(i) == TimerFires(i, BOOLEAN)

MouseEnter(i) ==
  /\ Ready
  /\ inst[i].mounted
  /\ Attached(World, i)
  /\ ~inst[i].hover
  /\ inst' = [inst EXCEPT ![i] = [clearTimeout(@, @.timerRef) EXCEPT !.hover = TRUE]]
  /\ swept' = UndefinedNumber
  /\ UNCHANGED <<MessageList, keyIndex, containers, used, pc, threw>>

MouseLeave(i) ==
  /\ Ready
  /\ inst[i].mounted
  /\ Attached(World, i)
  /\ inst[i].timerSeq < MaxArm
  /\ inst' = [inst EXCEPT ![i] = [startDuration(@) EXCEPT !.hover = FALSE]]
  /\ swept' = UndefinedNumber
  /\ UNCHANGED <<MessageList, keyIndex, containers, used, pc, threw>>

Lifecycle ==
  \/ FactoryAttach
  \/ \E i \in 1..Len(inst) : Close(i)
  \/ \E i \in 1..Len(inst) : MessageClose(i)
  \/ CloseAll

Next ==
  \/ \E theme \in ThemeList, content \in LifeContents, duration \in {UndefinedNumber, 0} :
       Factory(theme, content, duration)
  \/ Lifecycle
  \/ Tick
  \/ \E i \in 1..Len(inst) : TimerFire(i)
  \/ \E i \in 1..Len(inst) : MouseEnter(i)
  \/ \E i \in 1..Len(inst) : MouseLeave(i)

Spec == Init /\ [][Next]_vars

\* the same program with the container options varied and no time passing
ContainerNext ==
  \/ \E theme \in ThemeList, content \in ContainerContents :
       Factory(theme, content, UndefinedNumber)
  \/ Lifecycle

ContainerSpec == Init /\ [][ContainerNext]_vars

\* the same program left alone: no pointer event, no manual or bulk close, by
\* the caller or by a callback; the event loop lets time pass and runs the
\* timeouts that are due
AloneNext ==
  \/ \E theme \in ThemeList, content \in LifeContents, duration \in {UndefinedNumber, 0} :
       Factory(theme, content, duration)
  \/ FactoryAttach
  \/ Tick
  \/ \E i \in 1..Len(inst) : TimerFires(i, {FALSE})

LiveSpec ==
  /\ Init
  /\ [][AloneNext]_vars
  /\ WF_vars(FactoryAttach)
  /\ WF_vars(Tick)
  /\ \A i \in 1..MaxMsgs : WF_vars(TimerFires(i, {FALSE}))

\* ------------------------------------------------------------ observations
Created == 1..Len(inst)
DurationEndEvents == {"durationEnd", "durationEnd:close"}
ClosedCount(i) == Count(inst[i].log, "closed")
DurationEndCount(i) ==
  Cardinality({k \in 1..Len(inst[i].log) : inst[i].log[k] \in DurationEndEvents})
IsAttached(i) == Attached(World, i)
Registered(i) == i \in Range(MessageList)

\* ------------------------------------------------------------ claims

\* C1: after closeAll() returns the registry is empty and every message created
\* before the call is unmounted, detached, and has had onClosed fire exactly
\* once in total.
C1_CloseAllClosesEveryInstance ==
  swept # UndefinedNumber =>
    /\ MessageList = <<>>
    /\ \A i \in 1..swept :
         /\ ~inst[i].mounted
         /\ ~IsAttached(i)
         /\ ClosedCount(i) = 1

\* C2: a message with duration 0 never has a timeout pending and onDurationEnd
\* is never invoked for it (no timer closes it).
C2_ZeroDurationNeverArmed ==
  \A i \in Created :
    inst[i].duration = 0 => inst[i].timers = {} /\ DurationEndCount(i) = 0

ContainersAt(h, p) == {k \in 1..Len(containers[h]) : containers[h][k].placement = p}

\* C3: once the factory calls have returned there is exactly one container per
\* (host, placement) pair the calls used, under that host and with that
\* placement.
C3_OneContainerPerHostAndPlacement ==
  pc = "idle" =>
    \A h \in Hosts, p \in Placements :
      Cardinality(ContainersAt(h, p)) = IF <<h, p>> \in used THEN 1 ELSE 0

\* C4: onClosed has fired exactly once for every message that is closed, and
\* not at all for one that is still mounted, whatever closing paths ran.
C4_OnClosedExactlyOnce ==
  \A i \in Created : ClosedCount(i) = IF inst[i].mounted THEN 0 ELSE 1

C4_Witness ==
  \E i \in Created :
    /\ inst[i].log = <<"durationEnd:close", "closed">>
    /\ ~Registered(i)

\* C5: close(); close() on a handle leaves the same state as one close().
C5_CloseIdempotent ==
  pc = "idle" =>
    \A i \in Created, c1 \in BOOLEAN, c2 \in BOOLEAN :
      close(close(World, i, c1), i, c2) = close(World, i, c1)

C5_Witness ==
  \E i \in Created :
    /\ pc = "idle"
    /\ inst[i].mounted
    /\ inst[i].timers # {}
    /\ close(World, i, FALSE) # World

C6_Order ==
  \A i \in Created :
    /\ inst[i].mounted => inst[i].log = <<>>
    /\ ~inst[i].mounted =>
         /\ Len(inst[i].log) = 2
         /\ inst[i].log[1] \in DurationEndEvents
         /\ inst[i].log[2] = "closed"
C6_NotEarly ==
  \A i \in Created :
    inst[i].duration > 0 =>
      \A t \in inst[i].timers : t.remaining = 0 => inst[i].waited >= inst[i].duration
\* C6: left alone, a message with duration D > 0 has its timeout due only once
\* D ms have passed since mount; the handler runs onDurationEnd once and then
\* onClosed once, in that order; and the message ends closed.
C6_TimerClosesAfterDuration ==
  /\ [](C6_Order /\ C6_NotEarly)
  /\ \A i \in 1..MaxMsgs :
       (i \in Created /\ inst[i].duration > 0) ~> (i \in Created /\ ~inst[i].mounted)

C6_Witness ==
  \E i \in Created :
    /\ inst[i].duration > 0
    /\ inst[i].log = <<"durationEnd", "closed">>

\* C7: for a message with duration D > 0, no timeout is pending while the
\* pointer is over it, and the timeout set on pointer-leave is due only once
\* the full D ms have passed since the leave.
C7_HoverRestartsFullDuration ==
  \A i \in Created :
    inst[i].duration > 0 =>
      /\ inst[i].hover => inst[i].timers = {}
      /\ \A t \in inst[i].timers :
           t.id > 1 /\ t.remaining = 0 => inst[i].waited >= inst[i].duration

C7_Witness ==
  \E i \in Created :
    /\ inst[i].duration > 0
    /\ \E t \in inst[i].timers : t.id > 1 /\ t.remaining = 0

\* C8: every key is greater than 1 and greater than every key issued before
\* it, and the key of a handle never changes.
C8_KeysIncreaseAndStay ==
  /\ [](\A i \in Created :
          /\ inst[i].key > 1
          /\ inst[i].key <= keyIndex
          /\ \A j \in Created : j < i => inst[j].key < inst[i].key)
  /\ [][\A i \in Created : inst'[i].key = inst[i].key]_vars

C8_Witness ==
  \E i \in Created, j \in Created :
    /\ i < j
    /\ ~inst[i].mounted
    /\ ~Registered(i)
    /\ inst[j].key > inst[i].key

\* C9 as stated: the future of a message that is still mounted is resolved only
\* with its element attached to the container and its handle in the registry.
C9_ResolvedOnlyWhenAttachedAndRegistered ==
  \A i \in Created :
    inst[i].promise # 0 /\ inst[i].mounted => IsAttached(i) /\ Registered(i)

MountCompleted(i) == inst[i].resCalls > 0 /\ (inst[i].mounted \/ ClosedCount(i) > 0)
\* C9 amended: the future is resolved only once the mount has completed (the
\* ref callback ran); appendChild and push are done when the factory call
\* returns.
C9_ResolvedOnlyWhenMounted ==
  /\ [](\A i \in Created : inst[i].promise # 0 => MountCompleted(i))
  /\ [][pc = "attach" /\ pc' = "idle" =>
          IsAttached(Len(inst))' /\ Registered(Len(inst))']_vars

C9_Witness ==
  \E i \in Created :
    /\ pc = "attach"
    /\ inst[i].promise # 0
    /\ inst[i].mounted
    /\ ~IsAttached(i)
    /\ ~Registered(i)

\* C10: the future of every factory call is resolved with the handle built by
\* that call, and stays so: a close, a closeAll or the second run of the ref
\* callback does not settle it again.
C10_ResolvesOnceToOwnHandle ==
  /\ [](\A i \in Created : inst[i].promise = inst[i].key)
  /\ [][\A i \in Created : inst'[i].promise = inst[i].promise]_vars

C10_Witness ==
  \E i \in Created :
    /\ ~inst[i].mounted
    /\ inst[i].resCalls = 2
    /\ inst[i].promise = inst[i].key

\* what a task that passed futures to Message.close leaves: every message asked
\* for is settled, unmounted and detached, and every other message that
\* existed before the task, the closed one apart, is as it was
ClosedAsAsked(w, closed) ==
  /\ w.thens = <<>>
  /\ \A j \in w.asked :
       /\ w.inst[j].promise = w.inst[j].key
       /\ ~w.inst[j].mounted
       /\ ~Attached(w, j)
  /\ \A k \in Created \ (w.asked \cup closed) : w.inst[k] = inst[k]

\* C11: Message.close(future) closes the message of that future and no other,
\* and not before the future is resolved: called by a caller on a settled
\* future, or by an onClosed callback on the still pending future of the
\* message it has just created, it leaves that message unmounted and detached
\* when the task ends; on a message that is already closed it changes nothing.
C11_CloseFutureClosesItsInstance ==
  pc = "idle" =>
    \A i \in Created, creates \in BOOLEAN, cf \in BOOLEAN :
      /\ LET w == runMicrotasks(thenClose(Task(cf), i, creates))
         IN /\ i \in w.asked
            /\ ClosedAsAsked(w, {})
            /\ ~inst[i].mounted =>
                 /\ w.inst = inst
                 /\ w.MessageList = MessageList
                 /\ w.containers = containers
      /\ LET w == runMicrotasks(close(Task(cf), i, creates))
         IN /\ ClosedAsAsked(w, {i})
            /\ w.asked = IF cf /\ creates /\ inst[i].mounted /\ Len(inst) < MaxMsgs
                         THEN {Len(inst) + 1} ELSE {}

C11_Witness ==
  \E i \in Created :
    /\ pc = "idle"
    /\ inst[i].mounted
    /\ Len(inst) < MaxMsgs
    /\ LET w == close(Task(TRUE), i, TRUE)
           j == Len(inst) + 1
       IN /\ w.thens = <<[inst |-> j, creates |-> FALSE]>>
          /\ w.inst[j].mounted
          /\ ~runMicrotasks(w).inst[j].mounted
          /\ runMicrotasks(w).inst[j].resCalls = 2

\* C12 as stated: every handle in the registry belongs to a message that is
\* mounted and not closed; a close by the caller or by the timer takes the
\* handle out of the registry.
C12_RegistryHoldsOnlyLiveHandles ==
  \A i \in Created : Registered(i) => inst[i].mounted /\ ClosedCount(i) = 0

\* C13 as stated: a message whose duration is not a number never has a timeout
\* pending and never has onDurationEnd called, whatever the pointer does.
C13_AbsentDurationNeverArmed ==
  \A i \in Created :
    inst[i].duration = UndefinedNumber =>
      /\ inst[i].timers = {}
      /\ DurationEndCount(i) = 0

\* C14: a closed message has no timeout pending, and from the close on nothing
\* more happens to it: onDurationEnd is not called and no timeout is set. A
\* message closed while its timeout was pending thus never sees onDurationEnd.
C14_NoTimerAfterClose ==
  /\ [](\A i \in Created : ~inst[i].mounted => inst[i].timers = {})
  /\ [][\A i \in Created :
          ~inst[i].mounted =>
            /\ inst'[i].log = inst[i].log
            /\ inst'[i].timers = {}
            /\ ~inst'[i].mounted]_vars

C14_Witness ==
  \E i \in Created :
    /\ inst[i].duration > 0
    /\ ~inst[i].mounted
    /\ inst[i].log = <<"closed">>
    /\ inst[i].timers = {}
    /\ swept # UndefinedNumber

\* C15: closeAll() calls close() on the handles that are in the registry when
\* it starts, each once and in insertion order, the closed ones included, and
\* leaves the registry empty; a message that an onClosed callback creates
\* during the sweep is not closed by the sweep.
C15_CloseAllSweepsRegistryInOrder ==
  pc = "idle" =>
    \A creators \in SUBSET Range(MessageList), cf \in BOOLEAN :
      LET w == closeAll(Task(cf), creators)
      IN /\ w.calls = MessageList
         /\ w.MessageList = <<>>
         /\ \A i \in Range(MessageList) : ~w.inst[i].mounted
         /\ \A j \in (Len(inst) + 1)..Len(w.inst) :
              /\ j \notin Range(w.calls)
              /\ w.inst[j].mounted
              /\ w.inst[j].log = <<>>

C15_Witness ==
  /\ pc = "idle"
  /\ Len(MessageList) >= 2
  /\ \E i \in Range(MessageList), j \in Range(MessageList) :
       /\ ~inst[i].mounted
       /\ inst[j].mounted
       /\ ~closeAll(World, {}).inst[j].mounted
       /\ Len(closeAll(World, {}).calls) = Len(MessageList)

\* the host whose container holds the element of message i
HostsHolding(i) ==
  {h \in Hosts : \E k \in 1..Len(containers[h]) :
                   i \in Range(containers[h][k].children)}

\* C16 as stated: the element of a message whose attach is a host other than
\* the document body is in a container under that host; only a message
\* without such an attach is in a container under the body.
C16_AttachHostHoldsContainer ==
  \A i \in Created :
    IsAttached(i) =>
      HostsHolding(i) = {IF inst[i].attach \in Hosts THEN inst[i].attach ELSE "body"}

\* the children of the container of world w, first to last
ChildrenOf(w) ==
  IF Len(w.containers["body"]) = 0 THEN <<>> ELSE w.containers["body"][1].children

\* the messages of world w that are mounted and whose factory call has
\* returned, in the order of their factory calls
LiveInOrder(w, running) ==
  SelectSeq([k \in 1..Len(w.inst) |-> k],
            LAMBDA k : w.inst[k].mounted /\ k \notin running)

ContainerConfigs ==
  {MergeConfig(content, UndefinedNumber) : content \in ContainerContents}
    \ {config \in {MergeConfig(content, UndefinedNumber) : content \in ContainerContents} :
         createContainerThrows(config)}

\* zIndex and offsets of a container
StyleOf(c) == [zIndex |-> c.zIndex, placement |-> c.placement, top |-> c.top]

\* C18: once a host has a container, createContainer with any zIndex and
\* placement returns that container and changes nothing, so the host never has
\* two; and no step changes the zIndex or the offsets the container got when it
\* was created.
C18_ExistingContainerUnchanged ==
  /\ [](\A h \in Hosts :
          /\ Len(containers[h]) <= 1
          /\ \A config \in ContainerConfigs :
               mountedDomOf(config) = h /\ Len(containers[h]) = 1 =>
                 createContainer(containers, config) = containers)
  /\ [][\A h \in Hosts :
          Len(containers[h]) = 1 =>
            /\ Len(containers'[h]) = 1
            /\ StyleOf(containers'[h][1]) = StyleOf(containers[h][1])]_vars

C18_Witness ==
  /\ pc = "idle"
  /\ Len(containers["body"]) = 1
  /\ StyleOf(containers["body"][1]) =
       [zIndex |-> globalConfig.zIndex, placement |-> Top, top |-> globalConfig.top]
  /\ Len(containers["body"][1].children) = 2
  /\ <<"body", "bottom">> \in used
  /\ \E config \in ContainerConfigs :
       /\ config.zIndex # globalConfig.zIndex
       /\ config.placement = "bottom"
       /\ createContainer(containers, config) = containers

\* C19 as stated: between handlers, every message that is mounted has its
\* handle in the registry, so that the next closeAll() closes it.
C19_LiveInstancesAreRegistered ==
  pc = "idle" => \A i \in Created : inst[i].mounted => Registered(i)

\* C20: a message has at most one timeout pending, the one timerRef names,
\* however often the pointer leaves it.
C20_AtMostOnePendingTimer ==
  \A i \in Created :
    /\ Cardinality(inst[i].timers) <= 1
    /\ \A t \in inst[i].timers : t.id = inst[i].timerRef

C20_Witness ==
  \E i \in Created :
    /\ inst[i].mounted
    /\ ~inst[i].hover
    /\ inst[i].timerSeq = MaxArm
    /\ inst[i].timers = {[id |-> MaxArm, remaining |-> inst[i].duration]}

====
